---- MODULE Spec2Model ----
(***************************************************************************)
(* A model of the log-structured key/value store of src/kv.rs (KvStore).   *)
(*                                                                         *)
(* Log files are modelled as sequences of bytes (one-character strings);   *)
(* records are the serde_json text of MultipleCmd, byte for byte.  The     *)
(* index (records), the reader map, the positioned writer, the stale-byte  *)
(* counter (uncompacted) and the active generation (log) are the fields of *)
(* KvStore.  In Spec every file operation succeeds; SpecIo adds the calls   *)
(* of set and remove whose write or flush fails, and SpecSteps takes        *)
(* compact one step at a time.                                              *)
(***************************************************************************)
EXTENDS Integers, Sequences, FiniteSets, TLC

VARIABLES
    dir,          \* the database directory: generation |-> bytes of <generation>.log
    opened,       \* TRUE while a KvStore value exists for the directory
    log,          \* KvStore.log
    uncompacted,  \* KvStore.uncompacted
    readers,      \* KvStore.readers: generation |-> [pos]
    writer,       \* KvStore.writer: [log, pos, buf], buf being the bytes the
                  \* BufWriter has accepted and not yet written to the file
    records,      \* KvStore.records: key |-> [log, pos, len]
    ret,          \* the last call and what it returned
    hist,         \* history: key |-> the last successful mutation of the key
    twin,         \* a second store run in lock step without compaction
    last_open,    \* history: the active generation the last open chose
    compaction    \* the call of compact in progress, when it is taken in steps

vars ==
    <<dir, opened, log, uncompacted, readers, writer, records, ret, hist, twin,
      last_open, compaction>>

(***************************************************************************)
(* Bounds of the model.                                                    *)
(***************************************************************************)
\* Largest generation number a log file may get.
MaxGen == 5
\* Largest total number of bytes in the log files of the directory.
MaxDirBytes == 100
\* Largest number of mutating calls in the lock-step specification.
MaxTwinOps == 3

\* src/kv.rs:31 has 1024 * 1024; scaled down here so that bounded runs reach
\* it (two one-byte-key Set records are 62 bytes).
COMPACTION_THRESHOLD == 62

\* The "infinite threshold" of the reference store: more bytes than its calls
\* can write.
NoThreshold == MaxTwinOps * MaxDirBytes

Keys == {<<"a">>, <<"b">>}
Values == {<<"x">>, <<"y", "y">>}

(***************************************************************************)
(* Finite maps (HashMap / BTreeMap) as functions.                          *)
(***************************************************************************)
EmptyMap == << >>

MapPut(m, k, v) == [x \in (DOMAIN m) \cup {k} |-> IF x = k THEN v ELSE m[x]]

MapDel(m, k) == [x \in (DOMAIN m) \ {k} |-> m[x]]

Min(S) == CHOOSE x \in S : \A y \in S : x <= y

Max(S) == CHOOSE x \in S : \A y \in S : x >= y

(***************************************************************************)
(* The record codec: serde_json over                                       *)
(*   enum MultipleCmd { Set { key, value }, Rm { key } }.                  *)
(* Keys and values are drawn from letters, which JSON does not escape.     *)
(***************************************************************************)
Q == "\""

\* {"Set":{"key":"
SetHead == <<"{", Q, "S", "e", "t", Q, ":", "{", Q, "k", "e", "y", Q, ":", Q>>

\* ","value":"
SetMid == <<Q, ",", Q, "v", "a", "l", "u", "e", Q, ":", Q>>

\* {"Rm":{"key":"
RmHead == <<"{", Q, "R", "m", Q, ":", "{", Q, "k", "e", "y", Q, ":", Q>>

\* "}}
CmdTail == <<Q, "}", "}">>

CmdSet(key, value) == [type |-> "Set", key |-> key, value |-> value]

CmdRm(key) == [type |-> "Rm", key |-> key]

\* serde_json::to_writer(&mut writer, &cmd)
ToJson(cmd) ==
    IF cmd.type = "Set"
    THEN SetHead \o cmd.key \o SetMid \o cmd.value \o CmdTail
    ELSE RmHead \o cmd.key \o CmdTail

\* The literal lit stands in bytes at offset pos (0-based).
Lit(lit, bytes, pos) ==
    /\ pos + Len(lit) <= Len(bytes)
    /\ SubSeq(bytes, pos + 1, pos + Len(lit)) = lit

\* Offset of the first quote at or after pos, -1 when there is none.
StrEnd(bytes, pos) ==
    LET qs == {i \in pos..(Len(bytes) - 1) : bytes[i + 1] = Q}
    IN  IF qs = {} THEN -1 ELSE Min(qs)

SerdeErr == [ok |-> FALSE]

\* Deserialize one MultipleCmd starting at offset pos; end is the offset just
\* after it (StreamDeserializer::byte_offset).
ParseCmd(bytes, pos) ==
    IF Lit(SetHead, bytes, pos)
    THEN LET k0 == pos + Len(SetHead)
             k1 == StrEnd(bytes, k0)
         IN  IF k1 < 0 \/ ~Lit(SetMid, bytes, k1)
             THEN SerdeErr
             ELSE LET v0 == k1 + Len(SetMid)
                      v1 == StrEnd(bytes, v0)
                  IN  IF v1 < 0 \/ ~Lit(CmdTail, bytes, v1)
                      THEN SerdeErr
                      ELSE [ok |-> TRUE,
                            cmd |-> CmdSet(SubSeq(bytes, k0 + 1, k1),
                                           SubSeq(bytes, v0 + 1, v1)),
                            end |-> v1 + Len(CmdTail)]
    ELSE IF Lit(RmHead, bytes, pos)
    THEN LET k0 == pos + Len(RmHead)
             k1 == StrEnd(bytes, k0)
         IN  IF k1 < 0 \/ ~Lit(CmdTail, bytes, k1)
             THEN SerdeErr
             ELSE [ok |-> TRUE,
                   cmd |-> CmdRm(SubSeq(bytes, k0 + 1, k1)),
                   end |-> k1 + Len(CmdTail)]
    ELSE SerdeErr

\* serde_json::from_reader(reader.take(len)): one value, then end of input.
FromReader(bytes) ==
    LET p == ParseCmd(bytes, 0)
    IN  IF p.ok /\ p.end = Len(bytes) THEN p ELSE SerdeErr

\* reader.seek(Start(pos)) followed by reader.take(len) read to its end.
Take(bytes, pos, len) ==
    IF pos >= Len(bytes) THEN <<>>
    ELSE SubSeq(bytes, pos + 1, IF pos + len <= Len(bytes) THEN pos + len ELSE Len(bytes))

\* impl From<(u64, Range<u64>)> for RecordArgs
RecordArgs(gen, start, end) == [log |-> gen, pos |-> start, len |-> end - start]


(***************************************************************************)
(* The store.  A store value s has the fields of KvStore, and s.dir is the *)
(* directory it owns.                                                      *)
(***************************************************************************)
\* Byte order of the characters keys are made of (String's Ord).
Alphabet == <<"a", "b", "x", "y">>

Ord(c) == CHOOSE i \in 1..Len(Alphabet) : Alphabet[i] = c

\* a < b for String keys: lexicographic by bytes.
KeyLess(a, b) ==
    \E i \in 1..(Len(b)) :
        /\ \A j \in 1..(i - 1) : j <= Len(a) /\ a[j] = b[j]
        /\ \/ i = Len(a) + 1
           \/ i <= Len(a) /\ Ord(a[i]) < Ord(b[i])

\* The keys of a BTreeMap<String, _> in iteration order.
RECURSIVE SortedKeys(_)
SortedKeys(S) ==
    IF S = {} THEN <<>>
    ELSE LET m == CHOOSE k \in S : \A o \in S \ {k} : KeyLess(k, o)
         IN  <<m>> \o SortedKeys(S \ {m})

\* sorted_log_list: the generations of the <n>.log files, ascending.
RECURSIVE SortedLogList(_)
SortedLogList(S) ==
    IF S = {} THEN <<>>
    ELSE <<Min(S)>> \o SortedLogList(S \ {Min(S)})

\* new_log_file with a slip: the reader of the new file is not inserted.
NewLogFileNoReader(d, gen, rdrs) ==
    [dir     |-> IF gen \in DOMAIN d THEN d ELSE MapPut(d, gen, <<>>),
     readers |-> rdrs,
     writer  |-> [log |-> gen, pos |-> 0, buf |-> <<>>]]

\* new_log_file: open <gen>.log in create + append mode and add a reader for it.
\* A fresh handle is at offset 0, which is what both positions are set from.
NewLogFile(d, gen, rdrs) ==
    [dir     |-> IF gen \in DOMAIN d THEN d ELSE MapPut(d, gen, <<>>),
     readers |-> MapPut(rdrs, gen, [pos |-> 0]),
     writer  |-> [log |-> gen, pos |-> 0, buf |-> <<>>]]

\* The length of the index entry that an insert or remove of key returns, 0
\* when it returns None.
OldLen(recs, key) == IF key \in DOMAIN recs THEN recs[key].len ELSE 0

RECURSIVE LoadFrom(_, _, _, _, _)

\* The match of load with a slip: the length of a Rm record is not counted.
LoadCmdOmitsRmLength(gen, bytes, pos, recs, unc, p) ==
    IF ~p.ok THEN [ok |-> FALSE]
    ELSE IF p.cmd.type = "Set"
    THEN LoadFrom(gen, bytes, p.end,
                  MapPut(recs, p.cmd.key, RecordArgs(gen, pos, p.end)),
                  unc + OldLen(recs, p.cmd.key))
    ELSE LoadFrom(gen, bytes, p.end,
                  MapDel(recs, p.cmd.key),
                  unc + OldLen(recs, p.cmd.key))

\* The match of load with a slip: a Rm record is counted but the key stays
\* in the index.
LoadCmdKeepsRemoved(gen, bytes, pos, recs, unc, p) ==
    IF ~p.ok THEN [ok |-> FALSE]
    ELSE IF p.cmd.type = "Set"
    THEN LoadFrom(gen, bytes, p.end,
                  MapPut(recs, p.cmd.key, RecordArgs(gen, pos, p.end)),
                  unc + OldLen(recs, p.cmd.key))
    ELSE LoadFrom(gen, bytes, p.end, recs,
                  unc + OldLen(recs, p.cmd.key) + (p.end - pos))

\* The match of load on the command p decoded at offset pos, and the rest of
\* the stream.
LoadCmd(gen, bytes, pos, recs, unc, p) ==
    IF ~p.ok THEN [ok |-> FALSE]
    ELSE IF p.cmd.type = "Set"
    THEN LoadFrom(gen, bytes, p.end,
                  MapPut(recs, p.cmd.key, RecordArgs(gen, pos, p.end)),
                  unc + OldLen(recs, p.cmd.key))
    ELSE LoadFrom(gen, bytes, p.end,
                  MapDel(recs, p.cmd.key),
                  unc + OldLen(recs, p.cmd.key) + (p.end - pos))

\* The while loop of load, the stream being at offset pos.
LoadFrom(gen, bytes, pos, recs, unc) ==
    IF pos >= Len(bytes)
    THEN [ok |-> TRUE, records |-> recs, uncompacted |-> unc, pos |-> pos]
    ELSE LoadCmd(gen, bytes, pos, recs, unc, ParseCmd(bytes, pos))

\* load: replay one log file from offset 0 into the index.
Load(gen, bytes, recs) == LoadFrom(gen, bytes, 0, recs, 0)

RECURSIVE OpenLoop(_, _, _, _, _, _)

\* One turn of the loop of KvStore::open, l being what load returned.
OpenLoaded(d, list, i, rdrs, unc, l) ==
    IF ~l.ok THEN [ok |-> FALSE]
    ELSE OpenLoop(d, list, i + 1, MapPut(rdrs, list[i], [pos |-> l.pos]),
                  l.records, unc + l.uncompacted)

\* The loop of KvStore::open over log_list.
OpenLoop(d, list, i, rdrs, recs, unc) ==
    IF i > Len(list)
    THEN [ok |-> TRUE, readers |-> rdrs, records |-> recs, uncompacted |-> unc]
    ELSE OpenLoaded(d, list, i, rdrs, unc, Load(list[i], d[list[i]], recs))

\* The new generation with a slip: the number of log files.
NextLogCountsFromZero(list) == Len(list)

\* The new generation with a slip: the number of log files plus 1.
NextLogCounts(list) == Len(list) + 1

\* The new generation with a slip: the last log file is reused as the active
\* one.
NextLogReusesLast(list) == IF Len(list) = 0 THEN 1 ELSE list[Len(list)]

\* log_list.last().unwrap_or(&0) + 1
NextLog(list) == (IF Len(list) = 0 THEN 0 ELSE list[Len(list)]) + 1

\* The end of KvStore::open: r is what the replay gave, gen the new generation.
OpenNewLog(d, gen, r) ==
    IF ~r.ok THEN [res |-> "Serde"]
    ELSE LET n == NewLogFile(d, gen, r.readers)
         IN  [res |-> "Ok",
              s   |-> [dir |-> n.dir, log |-> gen, uncompacted |-> r.uncompacted,
                       readers |-> n.readers, writer |-> n.writer,
                       records |-> r.records]]

\* KvStore::open on a directory with the log files d.
KvOpen(d) ==
    OpenNewLog(d, NextLog(SortedLogList(DOMAIN d)),
               OpenLoop(d, SortedLogList(DOMAIN d), 1, EmptyMap, EmptyMap, 0))

\* write and flush with a slip: the file is opened without append, so that
\* the bytes replace what the file held.
WriteFlushRewrites(s, bytes) ==
    [s EXCEPT !.dir = [@ EXCEPT ![s.writer.log] = s.writer.buf \o bytes],
              !.writer = [@ EXCEPT !.pos = @ + Len(bytes), !.buf = <<>>]]

\* BufWriterWithPos::write of bytes followed by flush: the file of the writer
\* grows at its end (append mode) by what the buffer still held and by bytes,
\* and the cached position advances.
WriteFlush(s, bytes) ==
    [s EXCEPT !.dir = [@ EXCEPT ![s.writer.log] = @ \o s.writer.buf \o bytes],
              !.writer = [@ EXCEPT !.pos = @ + Len(bytes), !.buf = <<>>]]

\* The body of the compaction loop with a slip: the entry keeps its old
\* offset.
CopyRecordKeepsOffset(compaction_log, key, c, record, bytes) ==
    [readers |-> [c.readers EXCEPT ![record.log] = [pos |-> record.pos + Len(bytes)]],
     records |-> [c.records EXCEPT ![key] =
                      RecordArgs(compaction_log, record.pos, record.pos + Len(bytes))],
     out     |-> c.out \o bytes,
     new_pos |-> c.new_pos + Len(bytes)]

\* The body of the compaction loop with a slip: new_pos is never advanced.
CopyRecordSamePos(compaction_log, key, c, record, bytes) ==
    [readers |-> [c.readers EXCEPT ![record.log] = [pos |-> record.pos + Len(bytes)]],
     records |-> [c.records EXCEPT ![key] =
                      RecordArgs(compaction_log, c.new_pos, c.new_pos + Len(bytes))],
     out     |-> c.out \o bytes,
     new_pos |-> c.new_pos]

\* The body of the loop of KvStore::compact for the entry record of key, bytes
\* being what io::copy reads.  c carries the readers, the index, the bytes
\* given to compaction_writer and new_pos.
CopyRecord(compaction_log, key, c, record, bytes) ==
    [readers |-> [c.readers EXCEPT ![record.log] = [pos |-> record.pos + Len(bytes)]],
     records |-> [c.records EXCEPT ![key] =
                      RecordArgs(compaction_log, c.new_pos, c.new_pos + Len(bytes))],
     out     |-> c.out \o bytes,
     new_pos |-> c.new_pos + Len(bytes)]

\* The loop of KvStore::compact over records.values_mut().
RECURSIVE CompactLoop(_, _, _, _, _)
CompactLoop(d, compaction_log, keys, i, c) ==
    IF i > Len(keys) THEN c
    ELSE CompactLoop(d, compaction_log, keys, i + 1,
             CopyRecord(compaction_log, keys[i], c, c.records[keys[i]],
                        Take(d[c.records[keys[i]].log], c.records[keys[i]].pos,
                             c.records[keys[i]].len)))

\* The end of compact with a slip: the readers of the stale logs are removed,
\* their files are not.
RetireStaleKeepsFiles(compaction_log, new_log, w, d, c) ==
    LET stale_logs == {l \in DOMAIN c.readers : l < compaction_log}
    IN  [dir |-> [l \in DOMAIN d |->
                      IF l = compaction_log THEN d[l] \o c.out ELSE d[l]],
         log |-> new_log,
         uncompacted |-> 0,
         readers |-> [l \in (DOMAIN c.readers) \ stale_logs |-> c.readers[l]],
         writer |-> w,
         records |-> c.records]

\* The end of compact with a slip: the generations below the old active one
\* are retired, the old active one is kept.
RetireStaleKeepsActive(compaction_log, new_log, w, d, c) ==
    LET stale_logs == {l \in DOMAIN c.readers : l < compaction_log - 1}
    IN  [dir |-> [l \in (DOMAIN d) \ stale_logs |->
                      IF l = compaction_log THEN d[l] \o c.out ELSE d[l]],
         log |-> new_log,
         uncompacted |-> 0,
         readers |-> [l \in (DOMAIN c.readers) \ stale_logs |-> c.readers[l]],
         writer |-> w,
         records |-> c.records]

\* The end of KvStore::compact, c being what the loop left: the stale logs are
\* retired and uncompacted is reset.  compaction_writer is dropped when the
\* function returns, which is when its buffered bytes reach the file.
RetireStale(compaction_log, new_log, w, d, c) ==
    LET stale_logs == {l \in DOMAIN c.readers : l < compaction_log}
    IN  [dir |-> [l \in (DOMAIN d) \ stale_logs |->
                      IF l = compaction_log THEN d[l] \o c.out ELSE d[l]],
         log |-> new_log,
         uncompacted |-> 0,
         readers |-> [l \in (DOMAIN c.readers) \ stale_logs |-> c.readers[l]],
         writer |-> w,
         records |-> c.records]

\* KvStore::compact.
KvCompact(s) ==
    LET compaction_log == s.log + 1
        new_log == s.log + 2
        n1 == NewLogFile(s.dir, new_log, s.readers)
        n2 == NewLogFile(n1.dir, compaction_log, n1.readers)
    IN  RetireStale(compaction_log, new_log, n1.writer, n2.dir,
            CompactLoop(n2.dir, compaction_log, SortedKeys(DOMAIN s.records), 1,
                        [readers |-> n2.readers, records |-> s.records,
                         out |-> <<>>, new_pos |-> 0]))

\* The index update of set with a slip: an existing entry is kept
\* (entry().or_insert).
SetIndexKeepsOldEntry(w, key, entry) ==
    [w EXCEPT !.records = IF key \in DOMAIN @ THEN @ ELSE MapPut(@, key, entry)]

\* The index update of KvStore::set: insert the entry and count the old one.
SetIndex(w, key, entry) ==
    [w EXCEPT !.records = MapPut(@, key, entry),
              !.uncompacted = @ + OldLen(w.records, key)]

\* The end of set with a slip: compaction already at uncompacted = threshold.
SetCompactsAtThreshold(u, threshold) ==
    IF u.uncompacted >= threshold THEN KvCompact(u) ELSE u

\* The end of KvStore::set: compaction above the threshold.
SetCompacts(u, threshold) ==
    IF u.uncompacted > threshold THEN KvCompact(u) ELSE u

\* The record of set once it is written: w is the store after the write.
SetWritten(s, w, key, threshold) ==
    SetCompacts(SetIndex(w, key, RecordArgs(s.log, s.writer.pos, w.writer.pos)),
                threshold)

\* KvStore::set, with the constant of the comparison as a parameter.
KvSet(s, key, value, threshold) ==
    [res |-> "Ok",
     s   |-> SetWritten(s, WriteFlush(s, ToJson(CmdSet(key, value))), key, threshold)]

\* The match of KvStore::get on the decoded command.
GetCmd(s, cmd) ==
    IF ~cmd.ok THEN [res |-> "Serde", s |-> s]
    ELSE IF cmd.cmd.type = "Set"
    THEN [res |-> "Some", value |-> cmd.cmd.value, s |-> s]
    ELSE [res |-> "UnexpectedCommandType", s |-> s]

\* get of an indexed key: the reader is moved over the bytes of the entry.
GetRecord(s, record, bytes) ==
    GetCmd([s EXCEPT !.readers[record.log] = [pos |-> record.pos + Len(bytes)]],
           FromReader(bytes))

\* get with a slip: the entry is taken out of the index (records.remove).
KvGetTakesEntry(s, key) ==
    IF key \in DOMAIN s.records
    THEN GetRecord([s EXCEPT !.records = MapDel(@, key)], s.records[key],
                   Take(s.dir[s.records[key].log], s.records[key].pos,
                        s.records[key].len))
    ELSE [res |-> "None", s |-> s]

\* KvStore::get.
KvGet(s, key) ==
    IF key \in DOMAIN s.records
    THEN GetRecord(s, s.records[key],
                   Take(s.dir[s.records[key].log], s.records[key].pos,
                        s.records[key].len))
    ELSE [res |-> "None", s |-> s]

\* remove with a slip: the Rm record is written, the index entry stays.
KvRemoveKeepsEntry(s, key) ==
    IF key \in DOMAIN s.records
    THEN [res |-> "Ok",
          s   |-> [WriteFlush(s, ToJson(CmdRm(key))) EXCEPT
                       !.uncompacted = @ + s.records[key].len]]
    ELSE [res |-> "KeyNotFound", s |-> s]

\* remove with a slip: the Rm record is written before the key is looked up.
KvRemoveWritesFirst(s, key) ==
    IF key \in DOMAIN s.records
    THEN [res |-> "Ok",
          s   |-> [WriteFlush(s, ToJson(CmdRm(key))) EXCEPT
                       !.records = MapDel(@, key),
                       !.uncompacted = @ + s.records[key].len]]
    ELSE [res |-> "KeyNotFound", s |-> WriteFlush(s, ToJson(CmdRm(key)))]

\* KvStore::remove.
KvRemove(s, key) ==
    IF key \in DOMAIN s.records
    THEN [res |-> "Ok",
          s   |-> [WriteFlush(s, ToJson(CmdRm(key))) EXCEPT
                       !.records = MapDel(@, key),
                       !.uncompacted = @ + s.records[key].len]]
    ELSE [res |-> "KeyNotFound", s |-> s]

\* How many of n bytes a failing write may have taken: none, a part or all.
Cuts(n) == {0, n \div 2, n}

\* A write of bytes followed by flush that fails: the writer has accepted the
\* first a bytes (its cached position counts them), and of what its buffer
\* then held only the first m bytes were written to the file; the rest stays
\* in the buffer.
WriteFails(s, a, m, pending) ==
    [s EXCEPT !.dir = [@ EXCEPT ![s.writer.log] = @ \o SubSeq(pending, 1, m)],
              !.writer = [@ EXCEPT !.pos = @ + a,
                                   !.buf = SubSeq(pending, m + 1, Len(pending))]]

\* The error of a failed write: serde_json::to_writer reports the I/O error of
\* a write as its own error, flush reports it as it is.
WriteErr(bytes, a) == IF a < Len(bytes) THEN "Serde" ELSE "Io"

\* set whose to_writer or flush fails, with a slip: the index is updated
\* before the record is written.
KvSetFailsIndexed(s, key, value, a, m) ==
    [res |-> WriteErr(ToJson(CmdSet(key, value)), a),
     s   |-> SetIndex(WriteFails(s, a, m,
                          s.writer.buf \o SubSeq(ToJson(CmdSet(key, value)), 1, a)),
                      key, RecordArgs(s.log, s.writer.pos, s.writer.pos + a))]

\* KvStore::set whose to_writer or flush fails: the ? returns the error before
\* the index is touched.
KvSetFails(s, key, value, a, m) ==
    [res |-> WriteErr(ToJson(CmdSet(key, value)), a),
     s   |-> WriteFails(s, a, m,
                 s.writer.buf \o SubSeq(ToJson(CmdSet(key, value)), 1, a))]

\* KvStore::remove of a key of the index whose to_writer or flush fails.
KvRemoveFails(s, key, a, m) ==
    [res |-> WriteErr(ToJson(CmdRm(key)), a),
     s   |-> WriteFails(s, a, m, s.writer.buf \o SubSeq(ToJson(CmdRm(key)), 1, a))]

\* The KvStore value is dropped: the BufWriter writes what its buffer holds,
\* of which the first m bytes reach the file (an error is ignored).
DropWriter(s, m) ==
    IF s.writer.buf = <<>> THEN s.dir
    ELSE [s.dir EXCEPT ![s.writer.log] = @ \o SubSeq(s.writer.buf, 1, m)]

\* compact after its loop: c is what the loop left, the bytes out being in
\* the buffer of compaction_writer.
Copied(compaction_log, new_log, w, d, unc, c) ==
    [s |-> [dir |-> d, log |-> new_log, uncompacted |-> unc,
            readers |-> c.readers, writer |-> w, records |-> c.records],
     compaction_log |-> compaction_log,
     out |-> c.out]

\* KvStore::compact up to the end of its loop.
CompactCopied(s) ==
    LET compaction_log == s.log + 1
        new_log == s.log + 2
        n1 == NewLogFile(s.dir, new_log, s.readers)
        n2 == NewLogFile(n1.dir, compaction_log, n1.readers)
    IN  Copied(compaction_log, new_log, n1.writer, n2.dir, s.uncompacted,
            CompactLoop(n2.dir, compaction_log, SortedKeys(DOMAIN s.records), 1,
                        [readers |-> n2.readers, records |-> s.records,
                         out |-> <<>>, new_pos |-> 0]))

\* KvStore::compact from the end of its loop to Ok(()): the readers and the
\* files of the stale logs are removed and uncompacted is reset.
CompactRetired(s, compaction_log) ==
    LET stale_logs == {l \in DOMAIN s.readers : l < compaction_log}
    IN  [s EXCEPT !.dir = [l \in (DOMAIN s.dir) \ stale_logs |-> s.dir[l]],
                  !.readers = [l \in (DOMAIN s.readers) \ stale_logs |->
                                   s.readers[l]],
                  !.uncompacted = 0]

\* KvStore::compact returns: compaction_writer goes out of scope and its
\* BufWriter writes the buffered bytes out to the compaction file.
CompactDropped(s, compaction_log, out) ==
    [s EXCEPT !.dir = [@ EXCEPT ![compaction_log] = @ \o out]]

\* KvStore::set up to the comparison with the threshold.
SetUpdated(s, w, key) ==
    SetIndex(w, key, RecordArgs(s.log, s.writer.pos, w.writer.pos))

(***************************************************************************)
(* The state machine: one store on one directory, called by one thread.    *)
(***************************************************************************)
\* The KvStore value held in the variables.
Store ==
    [dir |-> dir, log |-> log, uncompacted |-> uncompacted, readers |-> readers,
     writer |-> writer, records |-> records]

\* The variables take the fields of the KvStore value s.
Becomes(s) ==
    /\ dir' = s.dir
    /\ log' = s.log
    /\ uncompacted' = s.uncompacted
    /\ readers' = s.readers
    /\ writer' = s.writer
    /\ records' = s.records

\* No KvStore value exists (before open, after drop).
NoStore(d) ==
    [dir |-> d, log |-> 0, uncompacted |-> 0, readers |-> EmptyMap,
     writer |-> [log |-> 0, pos |-> 0, buf |-> <<>>], records |-> EmptyMap]

NoKey == <<>>

NoValue == <<>>

\* What a call returned: res is Ok, Some, None or the error, value the value
\* of Some, and compacted tells whether the call ran compact.
Ret(op, key, res, value, compacted) ==
    [op |-> op, key |-> key, res |-> res, value |-> value, compacted |-> compacted]

\* What a call of get returned.
GetRet(key, r) ==
    Ret("get", key, r.res, IF r.res = "Some" THEN r.value ELSE NoValue, FALSE)

RECURSIVE DirBytes(_)
DirBytes(d) ==
    IF DOMAIN d = {} THEN 0
    ELSE Len(d[Min(DOMAIN d)]) + DirBytes(MapDel(d, Min(DOMAIN d)))

LastGen(d) == IF DOMAIN d = {} THEN 0 ELSE Max(DOMAIN d)

TwinOff == [on |-> FALSE]

\* No call of compact is in progress.
Idle == [at |-> "idle"]

\* The reference store, when there is one, makes the same call and becomes t.
TwinFollows(mutating, t) ==
    IF twin.on
    THEN /\ mutating => twin.ops < MaxTwinOps
         /\ twin' = t
    ELSE twin' = twin

\* The reference store after a call that returned r and left it as s.
TwinAfter(t, s, mutating, r) ==
    [t EXCEPT !.s = s, !.ops = IF mutating THEN @ + 1 ELSE @, !.ret = r]

TwinReturned(t, op, key, mutating, r) ==
    TwinAfter(t, r.s, mutating, Ret(op, key, r.res, NoValue, FALSE))

TwinGot(t, key, r) == TwinAfter(t, r.s, FALSE, GetRet(key, r))

\* An empty directory that no store has opened yet.
NoStoreYet ==
    /\ dir = EmptyMap
    /\ log = 0
    /\ uncompacted = 0
    /\ readers = EmptyMap
    /\ writer = [log |-> 0, pos |-> 0, buf |-> <<>>]
    /\ records = EmptyMap

Init ==
    /\ NoStoreYet
    /\ opened = FALSE
    /\ ret = Ret("none", NoKey, "Ok", NoValue, FALSE)
    /\ hist = [k \in Keys |-> <<"unset">>]
    /\ twin = TwinOff
    /\ last_open = 0
    /\ compaction = Idle

InitTwin ==
    /\ NoStoreYet
    /\ opened = FALSE
    /\ ret = Ret("none", NoKey, "Ok", NoValue, FALSE)
    /\ hist = [k \in Keys |-> <<"unset">>]
    /\ twin = [on |-> TRUE, s |-> NoStore(EmptyMap), ops |-> 0,
               ret |-> Ret("none", NoKey, "Ok", NoValue, FALSE)]
    /\ last_open = 0
    /\ compaction = Idle

\* The call op on key returned r: the store becomes r.s, within the bound on
\* generations.
Returns(op, key, r) ==
    /\ r.s.log <= MaxGen
    /\ Becomes(r.s)
    /\ ret' = Ret(op, key, r.res, NoValue, opened /\ r.s.log # log)

\* KvStore::open(path)
Open ==
    /\ ~opened
    /\ KvOpen(dir).res = "Ok"
    /\ Returns("open", NoKey, KvOpen(dir))
    /\ opened' = TRUE
    /\ TwinFollows(FALSE, TwinReturned(twin, "open", NoKey, FALSE, KvOpen(twin.s.dir)))
    /\ last_open' = KvOpen(dir).s.log
    /\ UNCHANGED <<hist, compaction>>

\* The KvStore value is dropped: its handles are closed, the files stay.
Close ==
    /\ opened
    /\ \E m \in Cuts(Len(writer.buf)) : Becomes(NoStore(DropWriter(Store, m)))
    /\ opened' = FALSE
    /\ ret' = Ret("close", NoKey, "Ok", NoValue, FALSE)
    /\ TwinFollows(FALSE, TwinAfter(twin, NoStore(twin.s.dir), FALSE,
                                    Ret("close", NoKey, "Ok", NoValue, FALSE)))
    /\ UNCHANGED <<hist, last_open, compaction>>

\* store.set(key, value)
Set(key, value) ==
    /\ opened
    /\ DirBytes(dir) + Len(writer.buf) + Len(ToJson(CmdSet(key, value))) <= MaxDirBytes
    /\ Returns("set", key, KvSet(Store, key, value, COMPACTION_THRESHOLD))
    /\ TwinFollows(TRUE, TwinReturned(twin, "set", key, TRUE,
                                      KvSet(twin.s, key, value, NoThreshold)))
    /\ hist' = [hist EXCEPT ![key] = <<"set", value>>]
    /\ UNCHANGED <<opened, last_open, compaction>>

\* store.get(key)
Get(key) ==
    /\ opened
    /\ Becomes(KvGet(Store, key).s)
    /\ ret' = GetRet(key, KvGet(Store, key))
    /\ TwinFollows(FALSE, TwinGot(twin, key, KvGet(twin.s, key)))
    /\ UNCHANGED <<opened, hist, last_open, compaction>>

\* store.remove(key)
Remove(key) ==
    /\ opened
    /\ DirBytes(dir) + Len(writer.buf) + Len(ToJson(CmdRm(key))) <= MaxDirBytes
    /\ Returns("remove", key, KvRemove(Store, key))
    /\ TwinFollows(TRUE, TwinReturned(twin, "remove", key, TRUE, KvRemove(twin.s, key)))
    /\ hist' = IF KvRemove(Store, key).res = "Ok"
               THEN [hist EXCEPT ![key] = <<"removed">>] ELSE hist
    /\ UNCHANGED <<opened, last_open, compaction>>

\* store.compact(): the reference store is not compacted.
Compact ==
    /\ opened
    /\ Returns("compact", NoKey, [res |-> "Ok", s |-> KvCompact(Store)])
    /\ TwinFollows(FALSE, twin)
    /\ UNCHANGED <<opened, hist, last_open, compaction>>

Next ==
    \/ Open
    \/ Close
    \/ \E key \in Keys, value \in Values : Set(key, value)
    \/ \E key \in Keys : Get(key)
    \/ \E key \in Keys : Remove(key)
    \/ Compact

Spec == Init /\ [][Next]_vars

\* The store and the reference store without compaction, in lock step.
SpecTwin == InitTwin /\ [][Next]_vars

\* store.set(key, value) returns the error of a failed write or flush.
SetFails(key, value) ==
    /\ opened
    /\ DirBytes(dir) + Len(writer.buf) + Len(ToJson(CmdSet(key, value))) <= MaxDirBytes
    /\ \E a \in Cuts(Len(ToJson(CmdSet(key, value)))) :
           \E m \in Cuts(Len(writer.buf) + a) :
               /\ a < Len(ToJson(CmdSet(key, value))) \/ m < Len(writer.buf) + a
               /\ Returns("set", key, KvSetFails(Store, key, value, a, m))
    /\ UNCHANGED <<opened, hist, twin, last_open, compaction>>

\* store.remove(key) returns the error of a failed write or flush.
RemoveFails(key) ==
    /\ opened
    /\ key \in DOMAIN records
    /\ DirBytes(dir) + Len(writer.buf) + Len(ToJson(CmdRm(key))) <= MaxDirBytes
    /\ \E a \in Cuts(Len(ToJson(CmdRm(key)))) :
           \E m \in Cuts(Len(writer.buf) + a) :
               /\ a < Len(ToJson(CmdRm(key))) \/ m < Len(writer.buf) + a
               /\ Returns("remove", key, KvRemoveFails(Store, key, a, m))
    /\ UNCHANGED <<opened, hist, twin, last_open, compaction>>

\* The last call returned the error of a failed write or flush.
Failed == ret.op \in {"set", "remove"} /\ ret.res \in {"Io", "Serde"}

\* The caller of src/bin/kvs.rs: the error of set or remove ends main, which
\* drops the store.
NextIo ==
    \/ ~Failed /\ Open
    \/ Close
    \/ \E key \in Keys, value \in Values : ~Failed /\ Set(key, value)
    \/ \E key \in Keys : ~Failed /\ Get(key)
    \/ \E key \in Keys : ~Failed /\ Remove(key)
    \/ ~Failed /\ Compact
    \/ \E key \in Keys, value \in Values : ~Failed /\ SetFails(key, value)
    \/ \E key \in Keys : ~Failed /\ RemoveFails(key)

\* The store with writes and flushes that may fail.
SpecIo == Init /\ [][NextIo]_vars

\* compact has run up to the end of its loop in the call op on key.
CompactBegins(op, key, x) ==
    /\ x.s.log <= MaxGen
    /\ Becomes(x.s)
    /\ compaction' = [at |-> "copied", op |-> op, key |-> key,
                      compaction_log |-> x.compaction_log, out |-> x.out]
    /\ UNCHANGED ret

\* store.compact() is called.
CompactCall ==
    /\ opened
    /\ compaction = Idle
    /\ CompactBegins("compact", NoKey, CompactCopied(Store))
    /\ UNCHANGED <<opened, hist, twin, last_open>>

\* set has updated the index and the store is u: it returns, or it calls
\* compact.
SetCalled(key, u) ==
    IF u.uncompacted > COMPACTION_THRESHOLD
    THEN CompactBegins("set", key, CompactCopied(u))
    ELSE Returns("set", key, [res |-> "Ok", s |-> u]) /\ UNCHANGED compaction

\* store.set(key, value) is called.
SetCall(key, value) ==
    /\ opened
    /\ compaction = Idle
    /\ DirBytes(dir) + Len(writer.buf) + Len(ToJson(CmdSet(key, value))) <= MaxDirBytes
    /\ SetCalled(key, SetUpdated(Store, WriteFlush(Store, ToJson(CmdSet(key, value))), key))
    /\ hist' = [hist EXCEPT ![key] = <<"set", value>>]
    /\ UNCHANGED <<opened, twin, last_open>>

\* compact removes the stale logs and resets uncompacted.
CompactRetires ==
    /\ compaction.at = "copied"
    /\ Becomes(CompactRetired(Store, compaction.compaction_log))
    /\ compaction' = [compaction EXCEPT !.at = "retired"]
    /\ UNCHANGED <<opened, ret, hist, twin, last_open>>

\* compact returns, and with it the call that ran it.
CompactReturns ==
    /\ compaction.at = "retired"
    /\ Becomes(CompactDropped(Store, compaction.compaction_log, compaction.out))
    /\ compaction' = Idle
    /\ ret' = Ret(compaction.op, compaction.key, "Ok", NoValue, TRUE)
    /\ UNCHANGED <<opened, hist, twin, last_open>>

NextSteps ==
    \/ compaction = Idle /\ Open
    \/ compaction = Idle /\ Close
    \/ \E key \in Keys, value \in Values : SetCall(key, value)
    \/ \E key \in Keys : compaction = Idle /\ Get(key)
    \/ \E key \in Keys : compaction = Idle /\ Remove(key)
    \/ CompactCall
    \/ CompactRetires
    \/ CompactReturns

\* The store with compact taken one step at a time.
SpecSteps == Init /\ [][NextSteps]_vars

TypeOK ==
    /\ opened \in BOOLEAN
    /\ log \in 0..MaxGen
    /\ uncompacted \in Nat
    /\ DOMAIN dir \subseteq 1..MaxGen
    /\ DOMAIN readers \subseteq 1..MaxGen
    /\ DOMAIN records \subseteq Keys

(***************************************************************************)
(* Properties.                                                             *)
(***************************************************************************)
\* What a caller sees of get(key) on the store s.
GetView(s, key) ==
    LET r == KvGet(s, key)
    IN  [res |-> r.res, value |-> IF r.res = "Some" THEN r.value ELSE NoValue]

\* C1: round trip.  A key whose last successful mutation is set(k, v) reads
\* as Some(v): both the get that was just made and any get that could be made
\* now return the value of the most recent set, whatever sets, removes and
\* compactions came before.
RoundTrip ==
    opened =>
        /\ \A k \in Keys :
               hist[k][1] = "set" =>
                   GetView(Store, k) = [res |-> "Some", value |-> hist[k][2]]
        /\ (ret.op = "get" /\ hist[ret.key][1] = "set") =>
               (ret.res = "Some" /\ ret.value = hist[ret.key][2])

\* A get returned the last value set for a key that was overwritten, and
\* whose record a compaction has moved to the compaction generation.
RoundTripWitness ==
    /\ opened
    /\ ret.op = "get"
    /\ ret.res = "Some"
    /\ ret.value = <<"y", "y">>
    /\ hist[ret.key] = <<"set", ret.value>>
    /\ log >= 3
    /\ records[ret.key].log = log - 1
    /\ \E k \in Keys : hist[k] = <<"removed">>

\* C2: tombstone.  A key whose last successful mutation is a remove has no
\* index entry, and get of it returns None, until it is set again, whatever
\* happened to other keys and whether or not the logs were compacted.
Tombstone ==
    opened =>
        /\ \A k \in Keys :
               hist[k] = <<"removed">> =>
                   (k \notin DOMAIN records /\ GetView(Store, k).res = "None")
        /\ (ret.op = "get" /\ hist[ret.key] = <<"removed">>) => ret.res = "None"

\* A get of a removed key returned None after a compaction, while the other
\* key is live.
TombstoneWitness ==
    /\ opened
    /\ ret.op = "get"
    /\ ret.res = "None"
    /\ hist[ret.key] = <<"removed">>
    /\ log >= 3
    /\ \E k \in DOMAIN records : k # ret.key

\* C3: persistence.  In every state a store can be in, dropping it and opening
\* a fresh store on the same directory succeeds and gives, for every key, the
\* get result the first store gives.
Persistence ==
    opened =>
        LET r == KvOpen(dir)
        IN  /\ r.res = "Ok"
            /\ \A k \in Keys : GetView(r.s, k) = GetView(Store, k)

\* A store was opened on a directory left by a store that had compacted, with
\* a live key and a removed key.
PersistenceWitness ==
    /\ opened
    /\ ret.op = "open"
    /\ Cardinality(DOMAIN dir) = 3
    /\ records # EmptyMap
    /\ \E k \in Keys : hist[k] = <<"removed">>
    /\ \E k \in Keys : hist[k][1] = "set" /\ GetView(Store, k).res = "Some"

\* C4: compaction preserves content.  The store and the reference store that
\* never compacts, given the same calls, return the same result for every
\* call (get: the value or None; remove: Ok or KeyNotFound) and would return
\* the same result for a get of any key.
CompactionPreservesContent ==
    (twin.on /\ opened) =>
        /\ ret.op # "compact" =>
               (ret.op = twin.ret.op /\ ret.key = twin.ret.key
                /\ ret.res = twin.ret.res /\ ret.value = twin.ret.value)
        /\ \A k \in Keys : GetView(Store, k) = GetView(twin.s, k)

\* A remove succeeded on a store that has compacted while the reference store
\* still appends to its first log.
CompactionPreservesContentWitness ==
    /\ twin.on
    /\ opened
    /\ ret.op = "remove"
    /\ ret.res = "Ok"
    /\ log >= 3
    /\ twin.s.log = 1
    /\ records # EmptyMap

\* C5: remove of a key that is not in the index returns KeyNotFound and
\* changes nothing: the log files, the index, the stale-byte counter, the
\* active generation and the writer stay as they were.
RemoveAbsentStep ==
    (opened /\ ret'.op = "remove" /\ ret'.key \notin DOMAIN records) =>
        /\ ret'.res = "KeyNotFound"
        /\ dir' = dir
        /\ records' = records
        /\ uncompacted' = uncompacted
        /\ log' = log
        /\ writer' = writer

RemoveAbsent == [][RemoveAbsentStep]_vars

\* remove returned KeyNotFound for a key that had been removed before.
RemoveAbsentWitness ==
    /\ opened
    /\ ret.op = "remove"
    /\ ret.res = "KeyNotFound"
    /\ hist[ret.key] = <<"removed">>
    /\ records # EmptyMap

\* The bytes of the records of one log file that the index does not point to.
RECURSIVE StaleIn(_, _, _, _)
StaleIn(gen, bytes, pos, recs) ==
    IF pos >= Len(bytes) THEN 0
    ELSE LET p == ParseCmd(bytes, pos)
         IN  IF ~p.ok THEN Len(bytes) - pos
             ELSE (IF /\ p.cmd.type = "Set"
                      /\ p.cmd.key \in DOMAIN recs
                      /\ recs[p.cmd.key] = RecordArgs(gen, pos, p.end)
                   THEN 0 ELSE p.end - pos)
                  + StaleIn(gen, bytes, p.end, recs)

RECURSIVE StaleBytes(_, _)
StaleBytes(d, recs) ==
    IF DOMAIN d = {} THEN 0
    ELSE LET g == Min(DOMAIN d)
         IN  StaleIn(g, d[g], 0, recs) + StaleBytes(MapDel(d, g), recs)

\* C6: stale-byte accounting.  After every call, uncompacted is the total
\* length of the records in the log files that are not the record the index
\* points to for their key, every Rm record being one of them.
StaleBytesExact ==
    opened => uncompacted = StaleBytes(dir, records)

\* C7: compaction post-state.  When a call has run compact from active
\* generation g, every index entry is in generation g + 1, the writer and the
\* active generation are g + 2, uncompacted is 0, and the log files and the
\* readers are exactly those of g + 1 and g + 2.
CompactionPostStep ==
    ret'.compacted =>
        /\ log' = log + 2
        /\ writer'.log = log + 2
        /\ DOMAIN records' = DOMAIN records \cup (IF ret'.op = "set" THEN {ret'.key} ELSE {})
        /\ \A k \in DOMAIN records' : records'[k].log = log + 1
        /\ uncompacted' = 0
        /\ DOMAIN dir' = {log + 1, log + 2}
        /\ DOMAIN readers' = {log + 1, log + 2}

CompactionPost == [][CompactionPostStep]_vars

\* A set ran compact on a directory that held the logs of an earlier store.
CompactionPostWitness ==
    /\ opened
    /\ ret.op = "set"
    /\ ret.compacted
    /\ log >= 4
    /\ records # EmptyMap

\* C8 as stated: uncompacted is below the threshold after every set.
SetBelowThreshold ==
    (opened /\ ret.op = "set") => uncompacted < COMPACTION_THRESHOLD

\* C8, amended: set runs compact exactly when, after it has updated the index
\* and uncompacted, uncompacted is greater than the threshold; hence
\* uncompacted is at most the threshold after every set.
SetCompactsAboveStep ==
    (opened /\ ret'.op = "set") =>
        LET old == IF ret'.key \in DOMAIN records THEN records[ret'.key].len ELSE 0
        IN  /\ ret'.compacted <=> (uncompacted + old > COMPACTION_THRESHOLD)
            /\ uncompacted' <= COMPACTION_THRESHOLD

SetCompactsAbove == [][SetCompactsAboveStep]_vars

\* A set returned without compacting with uncompacted equal to the threshold.
SetCompactsAboveWitness ==
    /\ opened
    /\ ret.op = "set"
    /\ ~ret.compacted
    /\ uncompacted = COMPACTION_THRESHOLD

\* C9: uncompacted is below the threshold after every successful remove,
\* remove having run compact otherwise.
RemoveBelowThreshold ==
    (opened /\ ret.op = "remove" /\ ret.res = "Ok") =>
        uncompacted < COMPACTION_THRESHOLD

\* C10: the active generation.  open sets it to the largest generation among
\* the log files of the directory (0 if there is none) plus 1, a call that ran
\* compact moves it from g to g + 2, and every other call leaves it alone.
ActiveGenStep ==
    /\ (~opened /\ opened') => log' = LastGen(dir) + 1
    /\ (opened /\ opened' /\ ret'.compacted) => log' = log + 2
    /\ (opened /\ opened' /\ ~ret'.compacted) => log' = log

EntryBytes(d, e) == IF e.log \in DOMAIN d THEN Take(d[e.log], e.pos, e.len) ELSE <<>>

\* C12: index validity.  After every call, for every key k of the index the
\* bytes [pos, pos + len) of the file of its entry are exactly one complete
\* Set record whose key is k, and no get returns UnexpectedCommandType (or a
\* decoding error).
IndexValid ==
    opened =>
        /\ \A k \in DOMAIN records :
               /\ records[k].log \in DOMAIN dir
               /\ Len(EntryBytes(dir, records[k])) = records[k].len
               /\ FromReader(EntryBytes(dir, records[k])).ok
               /\ FromReader(EntryBytes(dir, records[k])).cmd.type = "Set"
               /\ FromReader(EntryBytes(dir, records[k])).cmd.key = k
        /\ ret.op = "get" => ret.res \in {"Some", "None"}

\* Two keys are indexed after a compaction, one in the compaction generation
\* at an offset other than 0 and one in the active generation.
IndexValidWitness ==
    /\ opened
    /\ ret.op = "get"
    /\ ret.res = "Some"
    /\ log >= 3
    /\ \E k \in DOMAIN records : records[k].log = log - 1 /\ records[k].pos > 0
    /\ \E k \in DOMAIN records : records[k].log = log

\* The index a replay of the log files of d gives, FALSE when it fails.
Replayed(d) == OpenLoop(d, SortedLogList(DOMAIN d), 1, EmptyMap, EmptyMap, 0)

\* C13: replay equals index.  After every call, replaying the log files in
\* ascending generation and offset order gives exactly the index, entry for
\* entry.
ReplayEqualsIndex ==
    opened => (Replayed(dir).ok /\ Replayed(dir).records = records)

\* After a compaction of two keys one of them is removed: the index keeps an
\* entry in the compaction generation at an offset other than 0, and the
\* active log holds the Rm record of the other.
ReplayEqualsIndexWitness ==
    /\ opened
    /\ log >= 3
    /\ \E k \in DOMAIN records : records[k].log = log - 1 /\ records[k].pos > 0
    /\ uncompacted > 0
    /\ ret.op = "remove"
    /\ ret.res = "Ok"


\* The record a successful set or remove of the key of r wrote, the history
\* h being the one after the call.
Written(r, h) ==
    IF r.op = "set" THEN ToJson(CmdSet(r.key, h[r.key][2])) ELSE ToJson(CmdRm(r.key))

\* A set that returns without running compact leaves as the entry of its key
\* the active generation, the writer's position before the write and the
\* number of bytes written, and these bytes are the end of the active file.
SetEntryStep ==
    (opened /\ ret'.op = "set" /\ ~ret'.compacted) =>
        /\ records'[ret'.key] =
               [log |-> log, pos |-> writer.pos, len |-> Len(Written(ret', hist'))]
        /\ writer'.pos = writer.pos + Len(Written(ret', hist'))
        /\ dir'[log] = dir[log] \o Written(ret', hist')

\* After every call readers has a reader of the active generation, the writer
\* writes the active generation and its cached position is the size of the
\* file of the active generation.
ActiveWriterInv ==
    opened =>
        /\ log \in DOMAIN readers
        /\ log \in DOMAIN dir
        /\ writer.log = log
        /\ writer.pos = Len(dir[log])

\* C16: active-writer invariant.  readers always holds a reader of the active
\* generation, the writer's cached position always equals the size of the
\* active generation's file, and every set records its entry as (active
\* generation, position before the write, bytes written).
ActiveWriter == [](ActiveWriterInv) /\ [][SetEntryStep]_vars

\* A set has just written a second record to the active file of a store that
\* was opened on a directory with log files.
ActiveWriterWitness ==
    /\ opened
    /\ ret.op = "set"
    /\ ~ret.compacted
    /\ log >= 2
    /\ records[ret.key].log = log
    /\ records[ret.key].pos > 0
    /\ writer.pos = records[ret.key].pos + records[ret.key].len

\* C17: reader coverage.  After every call every generation named by an index
\* entry has a reader in readers, so that readers.get_mut(..) of get and of
\* compact is never None.
ReaderCoverage ==
    opened => \A k \in DOMAIN records : records[k].log \in DOMAIN readers

\* A get has read a key while the index has entries in two generations below
\* the active one.
ReaderCoverageWitness ==
    /\ opened
    /\ ret.op = "get"
    /\ ret.res = "Some"
    /\ \E j, k \in DOMAIN records :
           records[j].log < records[k].log /\ records[k].log < log

\* The records of a log file from offset pos on, each with its generation and
\* its byte range; an undecodable rest gives one record of type "Bad".
RECURSIVE RefRecords(_, _, _)
RefRecords(gen, bytes, pos) ==
    IF pos >= Len(bytes) THEN <<>>
    ELSE LET p == ParseCmd(bytes, pos)
         IN  IF ~p.ok THEN <<[type |-> "Bad"]>>
             ELSE <<[type |-> p.cmd.type, key |-> p.cmd.key, gen |-> gen,
                     offset |-> pos, new_offset |-> p.end]>>
                  \o RefRecords(gen, bytes, p.end)

\* The records of the log files of d, in ascending generation and offset
\* order.
RECURSIVE RefLog(_)
RefLog(d) ==
    IF DOMAIN d = {} THEN <<>>
    ELSE LET g == Min(DOMAIN d)
         IN  RefRecords(g, d[g], 0) \o RefLog(MapDel(d, g))

\* The length of the entry of key in the reference index, 0 without one.
RefPrior(index, key) == IF key \in DOMAIN index THEN index[key].len ELSE 0

\* One step of the reference fold: a Set adds the prior entry's length to
\* stale and stores (gen, offset, new_offset - offset); a Rm adds the prior
\* entry's length and its own length to stale and deletes the key.
RefStep(acc, r) ==
    IF r.type = "Set"
    THEN [index |-> [k \in DOMAIN acc.index \cup {r.key} |->
                         IF k = r.key
                         THEN [log |-> r.gen, pos |-> r.offset,
                               len |-> r.new_offset - r.offset]
                         ELSE acc.index[k]],
          stale |-> acc.stale + RefPrior(acc.index, r.key)]
    ELSE [index |-> [k \in DOMAIN acc.index \ {r.key} |-> acc.index[k]],
          stale |-> acc.stale + RefPrior(acc.index, r.key)
                        + (r.new_offset - r.offset)]

\* The reference fold over the first n records of rs.
RECURSIVE RefFold(_, _)
RefFold(rs, n) ==
    IF n = 0 THEN [index |-> EmptyMap, stale |-> 0]
    ELSE RefStep(RefFold(rs, n - 1), rs[n])

RefReplay(d) == RefFold(RefLog(d), Len(RefLog(d)))

\* C18: replay accounting.  On every directory content the store can leave,
\* the replay of open succeeds and gives the index and the uncompacted count
\* of the reference fold over its records in ascending generation and offset
\* order, and an open that has just returned holds exactly these.
ReplayAccounting ==
    /\ Replayed(dir).ok
    /\ Replayed(dir).records = RefReplay(dir).index
    /\ Replayed(dir).uncompacted = RefReplay(dir).stale
    /\ (opened /\ ret.op = "open") =>
           (records = RefReplay(dir).index /\ uncompacted = RefReplay(dir).stale)

\* An open has just replayed two log files or more holding an overwritten Set
\* record and a Rm record: a key is indexed, and the count is at least the
\* length of one Set record and one Rm record.
ReplayAccountingWitness ==
    /\ opened
    /\ ret.op = "open"
    /\ Cardinality(DOMAIN dir) >= 3
    /\ records # EmptyMap
    /\ \E i \in 1..Len(RefLog(dir)) : RefLog(dir)[i].type = "Rm"
    /\ uncompacted >= Len(ToJson(CmdSet(<<"a">>, <<"x">>))) + Len(ToJson(CmdRm(<<"a">>)))

\* The sum of the lengths of the entries of the keys K in the index recs.
RECURSIVE SumLen(_, _)
SumLen(recs, K) ==
    IF K = {} THEN 0
    ELSE LET k == CHOOSE k \in K : TRUE
         IN  recs[k].len + SumLen(recs, K \ {k})

\* The bytes of the live record of key k when compact starts in a call that
\* has returned r: the record just written for the key of a set, the bytes of
\* the index entry otherwise.
LiveBytes(r, h, k) ==
    IF r.op = "set" /\ r.key = k THEN Written(r, h)
    ELSE EntryBytes(dir, records[k])

\* When a call has run compact from active generation g: every entry is in
\* generation g + 1 with the bytes and the length of the live record
\* unchanged, at the offset that is the sum of the lengths of the entries of
\* the keys before it; the file of g + 1 is as long as the sum of all
\* lengths, and the file of g + 2 is empty.
CompactionLayoutStep ==
    ret'.compacted =>
        /\ \A k \in DOMAIN records' :
               /\ records'[k].log = log + 1
               /\ records'[k].len = Len(LiveBytes(ret', hist', k))
               /\ EntryBytes(dir', records'[k]) = LiveBytes(ret', hist', k)
               /\ records'[k].pos =
                      SumLen(records', {j \in DOMAIN records' : KeyLess(j, k)})
        /\ Len(dir'[log + 1]) = SumLen(records', DOMAIN records')
        /\ log' = log + 2
        /\ dir'[log'] = <<>>

\* C19: compaction layout.  compact copies each live record's bytes unchanged
\* into the compaction generation, the entries become contiguous and
\* non-overlapping from offset 0 with their lengths unchanged, the compaction
\* file's size is the sum of the entries' lengths and the new active file is
\* empty.
CompactionLayout == [][CompactionLayoutStep]_vars

\* A compaction has laid out two records of different lengths.
CompactionLayoutWitness ==
    /\ opened
    /\ ret.compacted
    /\ \E j, k \in DOMAIN records :
           /\ records[j].pos = 0
           /\ records[k].pos = records[j].len
           /\ records[k].len # records[j].len
    /\ Len(dir[log - 1]) > Len(ToJson(CmdSet(<<"a">>, <<"y", "y">>)))

\* A set or a remove that returns without running compact changes the log
\* files only by appending its one record to the active file, a remove of an
\* absent key changes none; and a step that deletes a log file has run
\* compact.
AppendOnlyStep ==
    /\ (opened /\ ret'.op \in {"set", "remove"} /\ ~ret'.compacted) =>
           /\ DOMAIN dir' = DOMAIN dir
           /\ \A g \in DOMAIN dir \ {log} : dir'[g] = dir[g]
           /\ dir'[log] = IF ret'.res = "Ok" THEN dir[log] \o Written(ret', hist')
                          ELSE dir[log]
    /\ (DOMAIN dir \ DOMAIN dir' # {}) => ret'.compacted

\* C20: append-only frame.  set and remove, apart from a compaction they
\* trigger, only append one record to the active generation's file: no other
\* file is changed, created or deleted and no written byte is altered; log
\* files are deleted by compaction only.
AppendOnly == [][AppendOnlyStep]_vars

\* A remove has appended its record after other records of the active file,
\* another log file being in the directory.
AppendOnlyWitness ==
    /\ opened
    /\ ret.op = "remove"
    /\ ret.res = "Ok"
    /\ ~ret.compacted
    /\ Cardinality(DOMAIN dir) >= 2
    /\ Len(dir[log]) > Len(ToJson(CmdRm(ret.key)))


\* The largest generation in the directory never decreases, and an open
\* chooses an active generation that is at least the one the last open chose.
GenerationMonotoneStep ==
    /\ LastGen(dir') >= LastGen(dir)
    /\ (~opened /\ opened') => (log' >= last_open /\ last_open' = log')

\* C11: generation monotonicity.  Over any sequence of open, set, remove,
\* compact and close on one directory the maximum generation present never
\* decreases, and each open chooses an active generation that is at least
\* the one the previous open chose.
GenerationMonotone == [][GenerationMonotoneStep]_vars

\* A store was opened after a compaction had deleted the log files of the
\* earlier generations, among them the active generation of the open before.
GenerationMonotoneWitness ==
    /\ opened
    /\ ret.op = "open"
    /\ last_open = log
    /\ log >= 4
    /\ Cardinality(DOMAIN dir) <= 3
    /\ 1 \notin DOMAIN dir

\* The three steps of compact, taken one after the other, give what compact
\* gives when it is taken as one step.
StepsAgree ==
    opened =>
        CompactDropped(CompactRetired(CompactCopied(Store).s, log + 1), log + 1,
                       CompactCopied(Store).out) = KvCompact(Store)

\* C14: compaction ordering.  In no state within compact are the stale log
\* files deleted while the bytes of a live record are not yet in the file of
\* the compaction generation.
CompactionOrdering ==
    compaction.at = "retired" =>
        \A k \in DOMAIN records :
            Len(EntryBytes(dir, records[k])) = records[k].len

\* A set or a remove that returns an error leaves the index and uncompacted
\* as they were; one that changes the index returns Ok, and its record is in
\* the file: the writer's buffer is empty.
WriteBeforeIndexStep ==
    (opened /\ ret'.op \in {"set", "remove"}) =>
        /\ ret'.res \in {"Io", "Serde"} =>
               (records' = records /\ uncompacted' = uncompacted)
        /\ records' # records => (ret'.res = "Ok" /\ writer'.buf = <<>>)

\* Every index entry names the bytes of one complete Set record of its key
\* in a file, also after failed calls.
NoDanglingEntry ==
    opened =>
        \A k \in DOMAIN records :
            /\ Len(EntryBytes(dir, records[k])) = records[k].len
            /\ FromReader(EntryBytes(dir, records[k])).ok
            /\ FromReader(EntryBytes(dir, records[k])).cmd.type = "Set"
            /\ FromReader(EntryBytes(dir, records[k])).cmd.key = k

\* C15: write-before-index ordering.  set and remove change the index only
\* after the record is written and flushed; when the write or the flush fails
\* the call returns the error and the index and uncompacted are what they
\* were, so that no entry names a partially written record.
WriteBeforeIndex == [](NoDanglingEntry) /\ [][WriteBeforeIndexStep]_vars

\* A set of an indexed key has failed after a part of its record reached the
\* file, the rest being in the writer's buffer.
WriteBeforeIndexWitness ==
    /\ opened
    /\ ret.op = "set"
    /\ ret.res = "Io"
    /\ ret.key \in DOMAIN records
    /\ writer.buf # <<>>
    /\ Len(dir[log]) > records[ret.key].pos + records[ret.key].len


\* A get leaves the index, uncompacted, the active generation, the writer and
\* every log file as they were, and the same get made again returns the same.
GetReadOnlyStep ==
    (opened /\ ret'.op = "get") =>
        /\ records' = records
        /\ uncompacted' = uncompacted
        /\ log' = log
        /\ writer' = writer
        /\ dir' = dir
        /\ DOMAIN readers' = DOMAIN readers
        /\ GetView(Store, ret'.key).res = ret'.res
        /\ GetView(Store, ret'.key).value = ret'.value
        /\ KvGet(KvGet(Store, ret'.key).s, ret'.key).res = ret'.res
        /\ ret'.res = "Some" =>
               KvGet(KvGet(Store, ret'.key).s, ret'.key).value = ret'.value

\* C21: get is read-only.  For a key present or absent, get changes neither
\* the index, uncompacted, the active generation, the writer position nor
\* any log file (reader positions may move), and two consecutive gets of a
\* key return the same result.
GetReadOnly == [][GetReadOnlyStep]_vars

\* A get of a key whose record is not at the start of its file has moved a
\* reader, and the index holds the other key too.
GetReadOnlyWitness ==
    /\ opened
    /\ ret.op = "get"
    /\ ret.res = "Some"
    /\ records[ret.key].pos > 0
    /\ readers[records[ret.key].log].pos = records[ret.key].pos + records[ret.key].len
    /\ Cardinality(DOMAIN records) = 2
    /\ uncompacted > 0

\* After every call the readers are those of the log files of the directory
\* and no log file is above the active generation.
ReadersAreFilesInv ==
    opened =>
        /\ DOMAIN readers = DOMAIN dir
        /\ \A g \in DOMAIN dir : g <= log

\* The generation an open makes active, and the two generations a compaction
\* creates, are those of no log file of the directory before the call.
FreshGenerationStep ==
    /\ (~opened /\ opened') => log' \notin DOMAIN dir
    /\ ret'.compacted => (log + 1 \notin DOMAIN dir /\ log + 2 \notin DOMAIN dir)
    /\ \A g \in DOMAIN dir' \ DOMAIN dir : g > LastGen(dir)

\* C22: readers and files.  After every call the key set of readers is the
\* set of generations of the log files and no log file is above the active
\* generation; the generations that compact and open create are never those
\* of an existing file.
ReadersAreFiles == [](ReadersAreFilesInv) /\ [][FreshGenerationStep]_vars

\* A compaction has retired the log files of three generations and created
\* two new ones.
ReadersAreFilesWitness ==
    /\ opened
    /\ ret.compacted
    /\ log = 5
    /\ DOMAIN readers = {4, 5}
    /\ records # EmptyMap

====
